---- MODULE Spec2Model ----
(***************************************************************************)
(* termongo: a terminal browser for a MongoDB server (src/src/main.rs).    *)
(* The model follows main(): startup, the initial render, and the event    *)
(* loop that dispatches one key event at a time on (app.state, key), with  *)
(* App::change_state as the redraw/fetch routine of every transition.      *)
(*                                                                         *)
(* The server and the terminal are the environment: the answer of a remote *)
(* call (success or failure, and the names or documents returned) and the  *)
(* failure of a terminal call are inputs, drawn at the step that makes the *)
(* call.  The answer of the remote call a handler made is kept in `fetch`. *)
(* A screen is the sequence of lines printed since the last clear; a line  *)
(* is a tuple that keeps its marker and its text apart.                    *)
(***************************************************************************)
EXTENDS Integers, Sequences, FiniteSets, TLC

\* ----------------------------------------------------------------- bounds
MaxDbs == 2
MaxColls == 2
MaxDocs == 2
TermRows == 4

DbPool == <<"alpha", "beta", "gamma", "delta">>
CollPool == <<"beta", "users", "logs", "jobs">>
DocPool == <<"d1", "d2">>

DbNames == {DbPool[i] : i \in 1..MaxDbs}
CollNames == {CollPool[i] : i \in 1..MaxColls}
DocNames == {DocPool[i] : i \in 1..Len(DocPool)}

SeqsUpTo(S, n) == UNION {[1..k -> S] : k \in 0..n}
Injective(s) == \A i, j \in 1..Len(s) : s[i] = s[j] => i = j

\* What the server can answer.  Names are opaque to the program, so the
\* databases are listed as a prefix of the pool; the collections of a
\* database change between calls, so a listing is any sequence of distinct
\* names; a collection holds any documents, in any order, repeats included.
DbListings == {SubSeq(DbPool, 1, k) : k \in 0..MaxDbs}
CollListings == {s \in SeqsUpTo(CollNames, MaxColls) : Injective(s)}
DocStreams == SeqsUpTo(DocNames, MaxDocs)

Min(a, b) == IF a < b THEN a ELSE b
Max(a, b) == IF a > b THEN a ELSE b

\* ------------------------------------------------------------ Option<T>
None == [tag |-> "None"]
Some(x) == [tag |-> "Some", val |-> x]

\* ------------------------------------------------------------- the state
VARIABLES
    pc,               \* "start", "loop" (blocked in event::read) or "exited"
    exit_code,        \* -1 while the process runs
    raw,              \* the terminal is in raw mode
    raw_used,         \* raw mode was enabled at least once
    overflow_checks,  \* the build panics on integer overflow (debug profile)
    state,            \* app.state
    list,             \* app.list
    collection_name,  \* app.collection_name
    collection_list,  \* app.collection_list
    database,         \* app.database: the handle, named by its database
    database_name,    \* app.database_name
    previous_line,    \* app.previous_line
    row,              \* the terminal's cursor row
    screen,           \* the lines printed since the last clear
    event,            \* the key the loop dispatched last
    nkeys,            \* key events dispatched so far, counted up to 2
    fetch,            \* the remote call of the last handler, and its answer
    initial_list,     \* app.list as fetched at startup
    initial_screen,   \* the screen of the initial render
    ncalls,           \* remote calls the last handler issued
    print_raw         \* the terminal mode the last handler printed in:
                      \* "cooked", "raw", or "none" if it printed nothing

app == <<state, list, collection_name, collection_list, database,
         database_name, previous_line>>
vars == <<pc, exit_code, raw, raw_used, overflow_checks, state, list,
          collection_name, collection_list, database, database_name,
          previous_line, row, screen, event, nkeys, fetch, initial_list,
          initial_screen, ncalls, print_raw>>

NoFetch == [kind |-> "none"]
ListFetch(name, ok, names) ==
    [kind |-> "list", db |-> name, ok |-> ok, names |-> names]
FindFetch(name, coll, ok, docs, stream_ok) ==
    [kind |-> "find", db |-> name, coll |-> coll, ok |-> ok, docs |-> docs,
     stream_ok |-> stream_ok]

\* ---------------------------------------------------------- pure helpers
\* .into_iter().enumerate().map(|(i, x)| (x, i)).collect()
Enumerate(names) == [i \in 1..Len(names) |-> <<names[i], i - 1>>]

\* the terminal keeps the cursor on the screen
MoveDown(r) == Min(r + 1, TermRows - 1)
MoveUp(r) == Max(r - 1, 0)
MoveToRow(r) == Min(r, TermRows - 1)
\* n lines printed from the top row leave the cursor below the last of them
RowAfterLines(n) == Min(n, TermRows - 1)

ItemLine(name) == <<">", name>>
ItemLines(l) == [i \in 1..Len(l) |-> ItemLine(l[i][1])]
DatabaseHeader(name) == <<"/", name>>
CollectionHeader(dbname, coll) == <<dbname, "/", coll>>
RecordLine(d) == <<"doc", d>>
RecordLines(data) == [i \in 1..Len(data) |-> RecordLine(data[i])]

\* the render of main() before the loop
InitialRender(l) == ItemLines(l)
\* change_state, State::Default
RenderDefaultSkipsFirst(l) == ItemLines(SubSeq(l, 2, Len(l)))
RenderDefault(l) == ItemLines(l)
\* change_state, State::InsideDatabase
CollectListDropsLast(names) == Enumerate(SubSeq(names, 1, Len(names) - 1))
CollectList(names) == Enumerate(names)
RenderDatabase(name, l) == <<DatabaseHeader(name)>> \o ItemLines(l)
\* change_state, State::InsideCollection
TryCollectKeepsDocs(docs, stream_ok) == docs
TryCollectKeepsFirst(docs, stream_ok) ==
    IF stream_ok THEN docs ELSE SubSeq(docs, 1, Min(1, Len(docs)))
TryCollect(docs, stream_ok) == IF stream_ok THEN docs ELSE <<>>
RenderCollection(dbname, coll, data) ==
    <<CollectionHeader(dbname, coll)>> \o RecordLines(data)

\* terminal::disable_raw_mode / enable_raw_mode, and the mode a print meets
DisableRawModeNoOp(r) == r
DisableRawMode(r) == FALSE
EnableRawMode(r) == TRUE
PrintMode(r) == IF r THEN "raw" ELSE "cooked"

\* the remote calls change_state issues for a target state: none for
\* Default, list_collection_names for InsideDatabase, find (with the read of
\* its cursor) for InsideCollection
RemoteCallsRefetchesRoot(target) == 1
RemoteCalls(target) == IF target = "Default" THEN 0 ELSE 1

\* the items of l at position index (the `for` loops of the Enter handlers)
Matches(l, index) == {i \in 1..Len(l) : l[i][2] = index}

\* cursor::position()?.1 - 1 on a u16
RowMinusOne(r) == IF r >= 1 THEN r - 1 ELSE 65535

\* --------------------------------------------------------------- startup
Init ==
    /\ pc = "start"
    /\ exit_code = -1
    /\ raw = FALSE
    /\ raw_used = FALSE
    /\ overflow_checks \in BOOLEAN
    /\ state = "Default"
    /\ list = <<>>
    /\ collection_name = ""
    /\ collection_list = None
    /\ database = None
    /\ database_name = "None"
    /\ previous_line = 1
    /\ row = 0
    /\ screen = <<>>
    /\ event = "none"
    /\ nkeys = 0
    /\ fetch = NoFetch
    /\ initial_list = <<>>
    /\ initial_screen = <<>>
    /\ ncalls = 0
    /\ print_raw = "none"

Exit(code) ==
    /\ pc' = "exited"
    /\ exit_code' = code

\* connect(args.connect).await.unwrap() panics
ConnectFail ==
    /\ pc = "start"
    /\ Exit(101)
    /\ UNCHANGED <<raw, raw_used, overflow_checks, app, row, screen, event,
                   nkeys, fetch, initial_list, initial_screen, ncalls,
                   print_raw>>

\* client.list_database_names(None, None).await? returns the error
ListDatabasesFail ==
    /\ pc = "start"
    /\ Exit(1)
    /\ UNCHANGED <<raw, raw_used, overflow_checks, app, row, screen, event,
                   nkeys, fetch, initial_list, initial_screen, ncalls,
                   print_raw>>

\* the App is built, the list is printed, raw mode is left enabled
Startup ==
    /\ pc = "start"
    /\ \E names \in DbListings :
        /\ list' = Enumerate(names)
        /\ initial_list' = Enumerate(names)
        /\ screen' = InitialRender(Enumerate(names))
        /\ initial_screen' = InitialRender(Enumerate(names))
        /\ row' = RowAfterLines(Len(names))
    /\ LET printing == DisableRawMode(EnableRawMode(raw))
       IN /\ print_raw' = PrintMode(printing)
          /\ raw' = EnableRawMode(printing)
    /\ raw_used' = TRUE
    /\ pc' = "loop"
    /\ UNCHANGED <<exit_code, overflow_checks, state, collection_name,
                   collection_list, database, database_name, previous_line,
                   event, nkeys, fetch, ncalls>>

\* ---------------------------------------------------------- change_state
\* Each form is change_state for one target state; prev is app.previous_line
\* as the calling handler has just set it.

\* State::Default: no remote call
ChangeStateDefault(prev) ==
    /\ screen' = RenderDefault(list)
    /\ row' = MoveToRow(prev + 1)
    /\ print_raw' = PrintMode(DisableRawMode(raw))
    /\ raw' = EnableRawMode(DisableRawMode(raw))
    /\ fetch' = NoFetch
    /\ ncalls' = RemoteCalls("Default")
    /\ UNCHANGED <<pc, exit_code, collection_list, database>>

\* State::InsideDatabase: the header is printed, then the collections are
\* listed; `?` returns the error with raw mode still disabled
ChangeStateInsideDatabase(name, prev, ok, names) ==
    /\ fetch' = ListFetch(name, ok, names)
    /\ ncalls' = RemoteCalls("InsideDatabase")
    /\ print_raw' = PrintMode(DisableRawMode(raw))
    /\ IF ok
       THEN /\ screen' = RenderDatabase(name, CollectList(names))
            /\ collection_list' = Some(CollectList(names))
            /\ database' = Some(name)
            /\ row' = MoveToRow(prev + 1)
            /\ raw' = EnableRawMode(DisableRawMode(raw))
            /\ UNCHANGED <<pc, exit_code>>
       ELSE /\ screen' = <<DatabaseHeader(name)>>
            /\ row' = RowAfterLines(1)
            /\ raw' = DisableRawMode(raw)
            /\ Exit(1)
            /\ UNCHANGED <<collection_list, database>>

\* State::InsideCollection: find, then try_collect, then the print.  The
\* caller has taken app.collection_list; app.database is Some in every state
\* that reaches this call (it is set on entering a database).
ChangeStateInsideCollection(coll, prev, ok, docs, stream_ok) ==
    /\ fetch' = FindFetch(database.val, coll, ok, docs, stream_ok)
    /\ ncalls' = RemoteCalls("InsideCollection")
    /\ print_raw' = PrintMode(DisableRawMode(raw))
    /\ collection_list' = None
    /\ UNCHANGED database
    /\ IF ok
       THEN /\ screen' = RenderCollection(database_name, coll,
                                          TryCollect(docs, stream_ok))
            /\ row' = MoveToRow(prev + 1)
            /\ raw' = EnableRawMode(DisableRawMode(raw))
            /\ UNCHANGED <<pc, exit_code>>
       ELSE /\ screen' = <<>>
            /\ row' = 0
            /\ raw' = DisableRawMode(raw)
            /\ Exit(1)

\* -------------------------------------------------------- the event loop
\* A key is named by the arm that takes it: "Esc" (KeyCode::ESCAPE), "Down",
\* "Up", "Enter", and "Other" for every key the `_` arms take.  Failures of
\* the raw-mode calls themselves and of execute! inside change_state are
\* not modelled.
Dispatch(k) ==
    /\ pc = "loop"
    /\ event' = k
    /\ nkeys' = Min(nkeys + 1, 2)
    /\ UNCHANGED <<raw_used, overflow_checks, initial_list, initial_screen>>

\* the arms that only move the cursor
CursorDown ==
    /\ Dispatch("Down")
    /\ row' = MoveDown(row)
    /\ fetch' = NoFetch
    /\ ncalls' = 0
    /\ print_raw' = "none"
    /\ UNCHANGED <<pc, exit_code, raw, app, screen>>

CursorUp ==
    /\ Dispatch("Up")
    /\ row' = MoveUp(row)
    /\ fetch' = NoFetch
    /\ ncalls' = 0
    /\ print_raw' = "none"
    /\ UNCHANGED <<pc, exit_code, raw, app, screen>>

\* main returns an Err, or panics, from inside the loop: nothing restores
\* the terminal
Abort(code) ==
    /\ Exit(code)
    /\ fetch' = NoFetch
    /\ ncalls' = 0
    /\ print_raw' = "none"
    /\ UNCHANGED <<raw, app, row, screen>>

\* State::Default
DefaultEscape ==
    /\ state = "Default"
    /\ Dispatch("Esc")
    /\ raw' = DisableRawMode(raw)
    /\ Exit(0)
    /\ fetch' = NoFetch
    /\ ncalls' = 0
    /\ print_raw' = "none"
    /\ UNCHANGED <<app, row, screen>>

DefaultDown == state = "Default" /\ CursorDown

DefaultUp == state = "Default" /\ CursorUp

DefaultEnter ==
    /\ state = "Default"
    /\ Dispatch("Enter")
    /\ LET index == row
           found == Matches(list, index)
       IN IF found = {}
          THEN /\ fetch' = NoFetch
               /\ ncalls' = 0
               /\ print_raw' = "none"
               /\ UNCHANGED <<pc, exit_code, raw, app, row, screen>>
          ELSE LET item == list[CHOOSE i \in found : \A j \in found : i <= j]
               IN /\ previous_line' = index
                  /\ state' = "InsideDatabase"
                  /\ database_name' = item[1]
                  /\ \E ok \in BOOLEAN :
                       \E names \in (IF ok THEN CollListings ELSE {<<>>}) :
                         ChangeStateInsideDatabase(item[1], index, ok, names)
                  /\ UNCHANGED <<list, collection_name>>

\* State::InsideDatabase
DatabaseDown == state = "InsideDatabase" /\ CursorDown

DatabaseUp == state = "InsideDatabase" /\ CursorUp

DatabaseEscape ==
    /\ state = "InsideDatabase"
    /\ Dispatch("Esc")
    /\ state' = "Default"
    /\ ChangeStateDefault(previous_line)
    /\ UNCHANGED <<list, collection_name, database_name, previous_line>>

\* The positions of a list are those Enumerate gave it, so the loop (which
\* has no break) meets at most one item.
DatabaseEnter ==
    /\ state = "InsideDatabase"
    /\ Dispatch("Enter")
    /\ IF (row = 0 /\ overflow_checks) \/ collection_list = None
       THEN Abort(101)
       ELSE LET index == RowMinusOne(row)
                collection == collection_list.val
                found == Matches(collection, index)
            IN IF found = {}
               THEN /\ collection_list' = None
                    /\ fetch' = NoFetch
                    /\ ncalls' = 0
                    /\ print_raw' = "none"
                    /\ UNCHANGED <<pc, exit_code, raw, state, list,
                                   collection_name, database, database_name,
                                   previous_line, row, screen>>
               ELSE LET item == collection[CHOOSE i \in found : TRUE][1]
                    IN /\ previous_line' = index
                       /\ state' = "InsideCollection"
                       /\ collection_name' = item
                       /\ \E ok \in BOOLEAN :
                            \E docs \in (IF ok THEN DocStreams ELSE {<<>>}) :
                              \E stream_ok \in (IF ok THEN BOOLEAN ELSE {FALSE}) :
                                ChangeStateInsideCollection(item, index, ok,
                                                            docs, stream_ok)
                       /\ UNCHANGED <<list, database_name>>

\* State::InsideCollection
CollectionDown == state = "InsideCollection" /\ CursorDown

CollectionUp == state = "InsideCollection" /\ CursorUp

CollectionEscape ==
    /\ state = "InsideCollection"
    /\ Dispatch("Esc")
    /\ state' = "InsideDatabase"
    /\ \E ok \in BOOLEAN :
         \E names \in (IF ok THEN CollListings ELSE {<<>>}) :
           ChangeStateInsideDatabase(database_name, previous_line, ok, names)
    /\ UNCHANGED <<list, collection_name, database_name, previous_line>>

\* the `_ => {}` arms: any other key, and Enter inside a collection
IgnoredKeyMovesCursor ==
    /\ \E k \in {"Other"} \cup
                (IF state = "InsideCollection" THEN {"Enter"} ELSE {}) :
         Dispatch(k)
    /\ row' = MoveDown(row)
    /\ fetch' = NoFetch
    /\ ncalls' = 0
    /\ print_raw' = "none"
    /\ UNCHANGED <<pc, exit_code, raw, app, screen>>

IgnoredKey ==
    /\ \E k \in {"Other"} \cup
                (IF state = "InsideCollection" THEN {"Enter"} ELSE {}) :
         Dispatch(k)
    /\ fetch' = NoFetch
    /\ ncalls' = 0
    /\ print_raw' = "none"
    /\ UNCHANGED <<pc, exit_code, raw, app, row, screen>>

\* event::read() fails: main returns the error
ReadFail ==
    /\ pc = "loop"
    /\ event' = "error"
    /\ Abort(1)
    /\ UNCHANGED <<raw_used, overflow_checks, nkeys, initial_list,
                   initial_screen>>

\* the terminal call of an arm fails (execute! of a cursor move in any
\* state, cursor::position() of an Enter arm): main returns the error
CursorFail ==
    /\ pc = "loop"
    /\ event' = "error"
    /\ nkeys' = Min(nkeys + 1, 2)
    /\ Abort(1)
    /\ UNCHANGED <<raw_used, overflow_checks, initial_list, initial_screen>>

Next ==
    \/ ConnectFail \/ ListDatabasesFail \/ Startup
    \/ DefaultEscape \/ DefaultDown \/ DefaultUp \/ DefaultEnter
    \/ DatabaseDown \/ DatabaseUp \/ DatabaseEscape \/ DatabaseEnter
    \/ CollectionDown \/ CollectionUp \/ CollectionEscape
    \/ IgnoredKey \/ ReadFail \/ CursorFail

Spec == Init /\ [][Next]_vars

\* ------------------------------------------------------------ properties
\* the header rows above the items of a level, and the index the cursor
\* row stands for
HeaderOffset(s) == IF s = "Default" THEN 0 ELSE 1
SelectedIndex == row - HeaderOffset(state)
\* the selection list of the level: app.list at the top, the held
\* collection list inside a database
ActiveList ==
    IF state = "Default" THEN list
    ELSE IF collection_list = None THEN <<>> ELSE collection_list.val
InRange == 0 <= SelectedIndex /\ SelectedIndex <= Len(ActiveList) - 1
\* the cursor row resolves to an item of the level's selection list
Resolves == \E i \in 1..Len(ActiveList) : ActiveList[i][2] = SelectedIndex
\* the last handler made a remote call and the call failed
FetchFailed == fetch.kind # "none" /\ ~fetch.ok

\* C1: a Confirm whose remote call (listing the collections of the selected
\* database, or opening the cursor of the selected collection) fails leaves
\* app.state as it was before the Confirm.
C1_FailedConfirmKeepsState ==
    [][(event' = "Enter" /\ FetchFailed') => state' = state]_vars

\* C2: a remote call that fails during navigation is not fatal: after it
\* the process has not exited and the loop waits for the next key.
C2_QueryFailureNotFatal ==
    FetchFailed => (pc = "loop" /\ exit_code = -1)

\* C3: Down and Up keep the selected index (cursor row minus header offset)
\* within the selection list: from an index inside [0, len-1] a Down or an
\* Up leads to an index inside it, a Down on the last item and an Up on the
\* first one leaving it unchanged.
C3_IndexStaysInRange ==
    [][(/\ pc = "loop"
        /\ state \in {"Default", "InsideDatabase"}
        /\ InRange
        /\ event' \in {"Down", "Up"})
       => /\ InRange'
          /\ (event' = "Down" /\ SelectedIndex = Len(ActiveList) - 1)
               => SelectedIndex' = SelectedIndex
          /\ (event' = "Up" /\ SelectedIndex = 0)
               => SelectedIndex' = SelectedIndex]_vars

\* C4: with the databases alpha, beta listed and just rendered, the first
\* two keys Down, Enter select beta: the state becomes InsideDatabase and
\* database_name becomes "beta" (the listing of beta succeeding).
C4_DownConfirmSelectsBeta ==
    [][(/\ list = <<(<<"alpha", 0>>), (<<"beta", 1>>)>>
        /\ nkeys = 1
        /\ event = "Down"
        /\ event' = "Enter"
        /\ pc' = "loop")
       => (state' = "InsideDatabase" /\ database_name' = "beta")]_vars

\* C5: coming back to the top level with Escape, the state is Default, the
\* top-level list is the one fetched at startup and the screen shows the
\* lines of the initial render.
C5_RoundTripRestoresRoot ==
    (pc = "loop" /\ state = "Default" /\ event = "Esc")
       => (list = initial_list /\ screen = initial_screen)

C5_Witness ==
    /\ pc = "loop"
    /\ state = "Default"
    /\ event = "Esc"
    /\ database_name = "beta"
    /\ Len(screen) = 2

\* C6: an Enter whose cursor row resolves to no item of the selection list
\* is a no-op: the process goes on and every field of the App is unchanged.
C6_UnresolvedConfirmIsNoOp ==
    [][(pc = "loop" /\ event' = "Enter" /\ ~Resolves)
       => (pc' = "loop" /\ UNCHANGED app)]_vars

\* C7: Escape inside a collection lists the collections of the database
\* again; when the call succeeds the state is InsideDatabase and the list
\* held and the items shown are the names that call returned, in its order.
C7_CancelRefetches ==
    (state = "InsideDatabase" /\ event = "Esc")
       => /\ fetch.kind = "list"
          /\ fetch.db = database_name
          /\ fetch.ok
               => /\ pc = "loop"
                  /\ collection_list.tag = "Some"
                  /\ collection_list.val =
                       [i \in 1..Len(fetch.names) |-> <<fetch.names[i], i - 1>>]
                  /\ screen = <<(<<"/", database_name>>)>> \o
                       [i \in 1..Len(fetch.names) |-> <<">", fetch.names[i]>>]

\* the collection that was open is no longer among those listed: the list
\* held is not the one the collection was chosen from
C7_Witness ==
    /\ pc = "loop"
    /\ state = "InsideDatabase"
    /\ event = "Esc"
    /\ fetch.kind = "list"
    /\ fetch.names # <<>>
    /\ \A i \in 1..Len(fetch.names) : fetch.names[i] # collection_name

\* C8 as stated: entering a collection shows the header "database/collection"
\* and then one line for every document of the collection, in order.
C8_OneLinePerRecord ==
    (event = "Enter" /\ fetch.kind = "find" /\ pc = "loop")
       => /\ state = "InsideCollection"
          /\ screen = <<(<<database_name, "/", collection_name>>)>> \o
               [i \in 1..Len(fetch.docs) |-> <<"doc", fetch.docs[i]>>]

\* C8 amended: when the cursor opens, the entry completes and the screen is
\* the header followed by one line per document, in order, if the stream
\* was read to its end, and the header alone if the stream failed part-way.
C8_OneLinePerCollectedRecord ==
    (event = "Enter" /\ fetch.kind = "find" /\ fetch.ok)
       => /\ pc = "loop"
          /\ state = "InsideCollection"
          /\ collection_name = fetch.coll
          /\ screen = <<(<<database_name, "/", collection_name>>)>> \o
               (IF fetch.stream_ok
                THEN [i \in 1..Len(fetch.docs) |-> <<"doc", fetch.docs[i]>>]
                ELSE <<>>)

C8_Witness ==
    /\ pc = "loop"
    /\ state = "InsideCollection"
    /\ event = "Enter"
    /\ fetch.kind = "find"
    /\ fetch.stream_ok
    /\ Len(fetch.docs) = 2
    /\ fetch.docs[1] # fetch.docs[2]
    /\ Len(screen) = 3

\* C9: once raw mode has been enabled, the process never ends with the
\* terminal still in raw mode.
C9_RawModeRestoredOnExit ==
    (pc = "exited" /\ raw_used) => ~raw

\* C10: the exit code is 0 exactly for Escape at the top level, a failed
\* startup ends with a non-zero code, and Escape inside a database or a
\* collection does not end the process.
C10_ExitCodes ==
    [][/\ (exit_code' = 0) => (pc = "loop" /\ state = "Default" /\ event' = "Esc")
       /\ (pc = "loop" /\ state = "Default" /\ event' = "Esc") => exit_code' = 0
       /\ (pc = "start" /\ pc' = "exited") => exit_code' > 0
       /\ (pc = "loop" /\ state # "Default" /\ event' = "Esc") => pc' = "loop"]_vars

\* the last handler redrew the screen and the loop waits for the next key
Redrawn == pc = "loop" /\ print_raw # "none"

\* C11: a completed transition into InsideDatabase issues exactly one
\* list_collection_names call, a completed transition into InsideCollection
\* exactly one find; going back to Default issues no call and leaves app.list
\* the list fetched at startup; Down, Up and ignored keys issue no call.
C11_RemoteCallAccounting ==
    [][/\ (pc' = "loop" /\ state # state' /\ state' = "InsideDatabase")
            => (ncalls' = 1 /\ fetch'.kind = "list")
       /\ (pc' = "loop" /\ state # state' /\ state' = "InsideCollection")
            => (ncalls' = 1 /\ fetch'.kind = "find")
       /\ (state # state' /\ state' = "Default")
            => (ncalls' = 0 /\ fetch'.kind = "none" /\ list' = list
                /\ list' = initial_list)
       /\ (event' \in {"Down", "Up", "Other"})
            => (ncalls' = 0 /\ fetch'.kind = "none")]_vars

C11_Witness ==
    /\ pc = "loop"
    /\ state = "Default"
    /\ event = "Esc"
    /\ ncalls = 0
    /\ collection_name # ""
    /\ Len(list) = 2

\* C12: no rendering step of a transition comes before its remote call has
\* completed, so a handler whose remote call fails leaves the screen as it
\* was.
C12_FailedFetchKeepsScreen ==
    [][FetchFailed' => screen' = screen]_vars

\* C13: every print is made with raw mode disabled, and raw mode is enabled
\* whenever the loop waits for a key.
C13_RawModeDiscipline ==
    /\ print_raw \in {"none", "cooked"}
    /\ pc = "loop" => raw

C13_Witness ==
    /\ pc = "loop"
    /\ state = "InsideCollection"
    /\ event = "Enter"
    /\ print_raw = "cooked"
    /\ raw
    /\ Len(screen) = 3

\* C14: after every redraw the cursor is on row previous_line + header
\* offset of the level drawn (0 at the top level, 1 below it).
C14_CursorAfterRedraw ==
    (Redrawn /\ nkeys > 0) => row = previous_line + HeaderOffset(state)

\* C15: previous_line is the position of the item entered or left: after
\* an Enter the position of the database or collection entered, in the list
\* it was chosen from; back at the top level after Escape the position, in
\* app.list, of the database left.
C15_PreviousLineTracksItem ==
    [][/\ (pc' = "loop" /\ state = "Default" /\ state' = "InsideDatabase")
            => \E i \in 1..Len(list) :
                 list[i] = <<database_name', previous_line'>>
       /\ (pc' = "loop" /\ state = "InsideDatabase"
           /\ state' = "InsideCollection")
            => \E i \in 1..Len(collection_list.val) :
                 collection_list.val[i] = <<collection_name', previous_line'>>
       /\ (pc' = "loop" /\ state = "InsideDatabase" /\ state' = "Default")
            => \E i \in 1..Len(list) :
                 list[i] = <<database_name, previous_line'>>]_vars

\* C16: whenever the loop waits for a key the screen and the list held are
\* those of the state: the top-level list at Default; inside a database its
\* header and the items of the collection list held, which is present;
\* inside a collection its header, then record lines only.
C16_StateViewConsistent ==
    pc = "loop" =>
      /\ state = "Default" => screen = [i \in 1..Len(list) |-> <<">", list[i][1]>>]
      /\ state = "InsideDatabase" =>
           /\ collection_list # None
           /\ screen = <<(<<"/", database_name>>)>> \o
                [i \in 1..Len(collection_list.val) |->
                   <<">", collection_list.val[i][1]>>]
      /\ state = "InsideCollection" =>
           /\ Len(screen) >= 1
           /\ screen[1] = <<database_name, "/", collection_name>>
           /\ \A i \in 2..Len(screen) : screen[i][1] = "doc"

\* C17: a key no arm names, and Enter inside a collection, change nothing
\* and issue no remote call; app.state changes only by Enter, one level
\* down, or by Escape, one level up.
C17_OtherKeysAreNoOps ==
    [][/\ (event' = "Other" \/ (event' = "Enter" /\ state = "InsideCollection"))
            => (/\ UNCHANGED <<app, row, screen, pc, exit_code, raw>>
                /\ ncalls' = 0
                /\ fetch'.kind = "none")
       /\ state' # state
            => \/ /\ event' = "Enter"
                  /\ <<state, state'>> \in {<<"Default", "InsideDatabase">>,
                                           <<"InsideDatabase", "InsideCollection">>}
               \/ /\ event' = "Esc"
                  /\ <<state, state'>> \in {<<"InsideCollection", "InsideDatabase">>,
                                           <<"InsideDatabase", "Default">>}]_vars

C17_Witness ==
    /\ pc = "loop"
    /\ state = "InsideCollection"
    /\ event = "Enter"
    /\ fetch.kind = "none"
    /\ Len(screen) = 3
    /\ row = 0

\* C18: when the cursor opens and its stream fails part-way, the entry into
\* the collection completes with the header alone on the screen and the
\* process goes on; an Enter that ends the process after a find is one
\* whose cursor did not open.
C18_StreamFailureDegrades ==
    /\ (event = "Enter" /\ fetch.kind = "find" /\ fetch.ok /\ ~fetch.stream_ok)
         => /\ pc = "loop"
            /\ exit_code = -1
            /\ state = "InsideCollection"
            /\ screen = <<(<<database_name, "/", fetch.coll>>)>>
    /\ (event = "Enter" /\ fetch.kind = "find" /\ pc = "exited") => ~fetch.ok

C18_Witness ==
    /\ pc = "loop"
    /\ state = "InsideCollection"
    /\ event = "Enter"
    /\ fetch.kind = "find"
    /\ ~fetch.stream_ok
    /\ Len(fetch.docs) = 2
    /\ Len(screen) = 1

\* C19: whenever the loop waits for a key inside a database, the collection
\* list is held (Some), so the expect of the Enter arm cannot fail.
C19_CollectionListPresent ==
    (pc = "loop" /\ state = "InsideDatabase") => collection_list.tag = "Some"

\* C20: every Enter handled inside a database finds the cursor on row 1 or
\* below, so `row - 1` does not underflow.
C20_RowMinusOneNoUnderflow ==
    [][(pc = "loop" /\ state = "InsideDatabase" /\ event' = "Enter")
       => row >= 1]_vars
====
